---------------------------- MODULE Spec2Model ----------------------------
(***************************************************************************)
(* Checkout-and-fulfilment engine of django-khmer25 (products app).        *)
(*                                                                         *)
(* The store is a transactional database in READ COMMITTED mode: every     *)
(* statement outside transaction.atomic() commits on its own, the writes   *)
(* of an atomic block reach the other requests together, at its commit, or *)
(* never (rollback), and SELECT ... FOR UPDATE takes row locks that make   *)
(* other writers and lockers of the row wait.                              *)
(*                                                                         *)
(* Money: prices are DecimalField(decimal_places=2) and are held in cents. *)
(* Product.final_price is exact and may carry four decimal places, so it   *)
(* is held in units of 1/10000 ("e4").                                     *)
(***************************************************************************)
EXTENDS Integers, Sequences, FiniteSets, TLC

\* ------------------------------------------------------------------ bounds
MaxStock == 2      \* largest initial stock of a product
MaxQty == 2        \* largest qty a request asks for
MaxOrders == 2     \* orders created in one run
MaxRequests == 4   \* requests served in one run
MaxItems == 2      \* CartItem rows inserted in one run (ids 1..MaxItems)

Buyers == {"alice", "bob"}
Reqs == {1, 2}                  \* requests that can be in flight together
Products == {1, 2}
Unlimited == 0 - 1
MissingProduct == Cardinality(Products) + 1   \* an id no Product row has
\* _gen_code: the prefix, then k=10 characters of ascii_uppercase + digits;
\* a code is the sequence of its characters
Prefix == <<"K", "H">>
TokenLen == 10
Alphabet ==
    {"A", "B", "C", "D", "E", "F", "G", "H", "I", "J", "K", "L", "M",
     "N", "O", "P", "Q", "R", "S", "T", "U", "V", "W", "X", "Y", "Z",
     "0", "1", "2", "3", "4", "5", "6", "7", "8", "9"}
\* the tokens random.choices draws in a run
Tokens ==
    {[i \in 1..TokenLen |-> "A"],
     [i \in 1..TokenLen |-> IF i = TokenLen THEN "9" ELSE "A"]}
Codes == {Prefix \o t : t \in Tokens}
Images == {"img1", "img2"}
NoImage == "none"
Notes == {"paid"}
RoundModes == {"HALF_EVEN", "HALF_UP"}  \* Django format_number / SQL numeric
\* what a catalogue edit may write: names, prices in cents, discount percents
Names == {"salt", "sea salt"}
Prices == {33, 45}
Discounts == {0, 10, 150}

VARIABLES
    products,    \* Product rows: id -> [name, price, discount_percent, stock, is_active, is_in_stock]
    carts,       \* the users that have a Cart row
    cartItems,   \* committed CartItem rows: set of [id, cart, product, qty]
    nextItemId,  \* CartItem id sequence
    orders,      \* committed Order rows, id = index
    proofs,      \* committed PaymentProof rows, id = index
    req,         \* the requests in flight: position, locals, transaction buffer
    last,        \* the response the previous step returned, if it returned one
    left,        \* requests still to be taken, or Unlimited
    inputs       \* what the requests of this run may ask for (fixed by Init)

vars == <<products, carts, cartItems, nextItemId, orders, proofs, req, last, left, inputs>>
db == <<products, carts, cartItems, nextItemId, orders, proofs>>

\* ------------------------------------------------------------------ helpers
Max(a, b) == IF a >= b THEN a ELSE b

Abs(x) == IF x < 0 THEN -x ELSE x

RECURSIVE SumSeq(_)
SumSeq(s) == IF s = <<>> THEN 0 ELSE Head(s) + SumSeq(Tail(s))

\* ------------------------------------------------------------------ Product
InitialStock == [p \in Products |-> IF p = 1 THEN MaxStock ELSE 1]

\* the catalogue: salt at 0.33 less 10% (final price 0.297), rice at 1000.00
\* less 10% (final price 900.00); prices are in cents
InitialProducts ==
    [p \in Products |->
        IF p = 1
        THEN [name |-> "salt", price |-> 33, discount_percent |-> 10,
              stock |-> InitialStock[p], is_active |-> TRUE, is_in_stock |-> TRUE]
        ELSE [name |-> "rice", price |-> 100000, discount_percent |-> 10,
              stock |-> InitialStock[p], is_active |-> TRUE, is_in_stock |-> TRUE]]

\* the discounted price cut to whole cents
final_priceWholeCents(p) == ((p.price * (100 - p.discount_percent)) \div 100) * 100

\* Product.final_price, exact, in units of 1/10000 (price is in cents)
final_price(p) ==
    IF p.discount_percent > 0
    THEN p.price * 100 - p.price * p.discount_percent
    ELSE p.price * 100

\* A Decimal with four places written to a DecimalField(decimal_places=2):
\* the value is rounded to cents, half-even by Django's format_number and
\* half away from zero by a SQL numeric(12,2) column.
Quantize2(x, mode) ==
    LET a == Abs(x)
        q == a \div 100
        rem == a % 100
        up == IF mode = "HALF_UP" THEN rem >= 50
              ELSE rem > 50 \/ (rem = 50 /\ q % 2 = 1)
        m == IF up THEN q + 1 ELSE q
    IN IF x < 0 THEN -m ELSE m

\* ------------------------------------------------------------------ requests
NoRow ==
    [name |-> "", price |-> 0, discount_percent |-> 0, stock |-> 0,
     is_active |-> FALSE, is_in_stock |-> FALSE]

Idle ==
    [op |-> "idle", pc |-> "idle", user |-> "none", product |-> 0, qty |-> 0,
     item |-> 0, stock |-> 0, prior |-> 0, newQty |-> 0, todo |-> {}, lines |-> <<>>,
     code |-> <<>>, target |-> 0, sel |-> {},
     decision |-> "none", image |-> NoImage, note |-> "", row |-> NoRow]

NoResponse ==
    [op |-> "none", user |-> "none", result |-> "none", detail |-> 0, product |-> 0, qty |-> 0]

\* a free worker takes the next request; of two free workers the first one does
Free(r) == req[r].pc = "idle" /\ \A o \in Reqs : o < r => req[o].pc # "idle"

\* worker r takes a new request
Accept(r) ==
    /\ Free(r)
    /\ left # 0
    /\ left' = IF left = Unlimited THEN left ELSE left - 1
    /\ UNCHANGED inputs

\* the request moves on without answering
Step(r, rec) ==
    /\ req' = [req EXCEPT ![r] = rec]
    /\ last' = NoResponse

\* the request answers and ends (a transaction in flight ends with it)
ReturnWith(r, o, u, res, det, pid, q) ==
    /\ req' = [req EXCEPT ![r] = Idle]
    /\ last' = [op |-> o, user |-> u, result |-> res, detail |-> det,
                product |-> pid, qty |-> q]

Return(r, o, u, res, det) == ReturnWith(r, o, u, res, det, req[r].product, req[r].qty)

\* rows a checkout transaction in flight holds FOR UPDATE
HeldItems(r) == {req[r].lines[i].item : i \in DOMAIN req[r].lines}
HeldProducts(r) == {req[r].lines[i].product : i \in DOMAIN req[r].lines}
InCheckout(r) == req[r].op = "checkout" /\ req[r].pc \in {"lock", "gencode", "write"}
ItemLocked(r, id) == \E o \in Reqs \ {r} : InCheckout(o) /\ id \in HeldItems(o)
ProductLocked(r, p) == \E o \in Reqs \ {r} : InCheckout(o) /\ p \in HeldProducts(o)

CartOf(u) == {it \in cartItems : it.cart = u}
ItemById(id) == {it \in cartItems : it.id = id}

\* ------------------------------------------------------------------ Init
AllInputs ==
    [users |-> Buyers, products |-> Products \cup {MissingProduct}, qtys |-> 0..MaxQty,
     tokens |-> Tokens]

InitStore ==
    /\ products = InitialProducts
    /\ carts = {}
    /\ cartItems = {}
    /\ nextItemId = 1
    /\ orders = <<>>
    /\ proofs = <<>>
    /\ req = [r \in Reqs |-> Idle]
    /\ last = NoResponse

Init ==
    /\ InitStore
    /\ left = MaxRequests
    /\ inputs = AllInputs

\* get_or_create_cart(user)
get_or_create_cart(u) == carts' = carts \cup {u}

\* the stock tests of lines 123, 129, 148 and 256
NotEnoughStock(stock, qty) == stock < qty

\* ------------------------------------------------------------ CartItemViewSet
\* create, lines 109-124: read the product, validate qty and stock
AddRead(r) ==
    /\ Accept(r)
    /\ \E u \in inputs.users, pid \in inputs.products, q \in inputs.qtys :
        LET base == [Idle EXCEPT !.op = "add", !.user = u, !.product = pid, !.qty = q]
            found == pid \in Products /\ products[pid].is_active
        IN /\ get_or_create_cart(u)
           /\ IF q < 1 THEN ReturnWith(r, "add", u, "ValidationError", 0, pid, q)
              ELSE IF ~found THEN ReturnWith(r, "add", u, "NotFound", 0, pid, q)
              ELSE IF NotEnoughStock(products[pid].stock, q)
                   THEN ReturnWith(r, "add", u, "InsufficientStock", 0, pid, q)
              ELSE Step(r, [base EXCEPT !.pc = "getorcreate", !.stock = products[pid].stock])
    /\ UNCHANGED <<products, cartItems, nextItemId, orders, proofs>>

\* line 127 overwriting instead of adding
AddedQtyOverwrite(created, old, qty) == qty

\* line 127: item.qty = qty if created else (item.qty + qty)
AddedQty(created, old, qty) == IF created THEN qty ELSE old + qty

\* create, lines 126-130: CartItem.objects.get_or_create(cart, product) inserts
\* a row with the default qty 1 when none exists; the new qty is computed in
\* memory and checked against the stock read at line 119
AddGetOrCreate(r) ==
    /\ req[r].op = "add" /\ req[r].pc = "getorcreate"
    /\ LET u == req[r].user
           pid == req[r].product
           found == {it \in cartItems : it.cart = u /\ it.product = pid}
       IN IF found # {}
          THEN LET it == CHOOSE x \in found : TRUE
                   newQty == AddedQty(FALSE, it.qty, req[r].qty)
               IN /\ IF NotEnoughStock(req[r].stock, newQty)
                     THEN Return(r, "add", u, "InsufficientStock", it.qty)
                     ELSE Step(r, [req[r] EXCEPT !.pc = "save", !.item = it.id,
                                                 !.prior = it.qty, !.newQty = newQty])
                  /\ UNCHANGED <<cartItems, nextItemId>>
          ELSE LET newQty == AddedQty(TRUE, 1, req[r].qty)
               IN /\ nextItemId <= MaxItems
                  /\ cartItems' = cartItems \cup
                        {[id |-> nextItemId, cart |-> u, product |-> pid, qty |-> 1]}
                  /\ nextItemId' = nextItemId + 1
                  /\ IF NotEnoughStock(req[r].stock, newQty)
                     THEN Return(r, "add", u, "InsufficientStock", 0)
                     ELSE Step(r, [req[r] EXCEPT !.pc = "save", !.item = nextItemId,
                                                 !.prior = 0, !.newQty = newQty])
    /\ UNCHANGED <<products, carts, orders, proofs>>
    /\ UNCHANGED <<left, inputs>>

\* Model.save() of a CartItem: UPDATE by primary key, and INSERT when the
\* UPDATE matched no row
SaveItem(id, u, pid, q) ==
    IF ItemById(id) # {}
    THEN {IF it.id = id THEN [it EXCEPT !.qty = q] ELSE it : it \in cartItems}
    ELSE cartItems \cup {[id |-> id, cart |-> u, product |-> pid, qty |-> q]}

\* models.py lines 90-94 without the constraint: every INSERT is accepted
SaveRejectedNever(id, u, pid) == FALSE

\* the INSERT is rejected by uniq_cart_product when another row holds (cart, product)
SaveRejected(id, u, pid) ==
    /\ ItemById(id) = {}
    /\ \E it \in cartItems : it.cart = u /\ it.product = pid

\* create, lines 132-134: item.save()
AddSave(r) ==
    /\ req[r].op = "add" /\ req[r].pc = "save"
    /\ ~ItemLocked(r, req[r].item)
    /\ IF SaveRejected(req[r].item, req[r].user, req[r].product)
       THEN /\ Return(r, "add", req[r].user, "IntegrityError", req[r].prior)
            /\ UNCHANGED cartItems
       ELSE /\ cartItems' = SaveItem(req[r].item, req[r].user, req[r].product, req[r].newQty)
            /\ Return(r, "add", req[r].user, "OK", req[r].prior)
    /\ UNCHANGED <<products, carts, nextItemId, orders, proofs>>
    /\ UNCHANGED <<left, inputs>>

\* line 150 adding instead of overwriting
PatchedQtyAdditive(old, qty) == old + qty

\* line 150: item.qty = qty
PatchedQty(old, qty) == qty

\* the lookup of lines 139 and 159 without cart=cart
ItemInAnyCart(u, id) == ItemById(id)

\* lines 139 and 159: CartItem.objects.filter(id=pk, cart=cart)
ItemInCart(u, id) == {it \in cartItems : it.id = id /\ it.cart = u}

\* partial_update, lines 137-149: find the item in the caller's cart, read qty
PatchRead(r) ==
    /\ Accept(r)
    /\ \E u \in inputs.users, id \in 1..MaxItems, q \in inputs.qtys :
        LET found == ItemInCart(u, id)
        IN /\ get_or_create_cart(u)
           /\ IF found = {} THEN ReturnWith(r, "patch", u, "NotFound", id, 0, q)
              ELSE LET it == CHOOSE x \in found : TRUE
                       base == [Idle EXCEPT !.op = "patch", !.user = u, !.item = id,
                                            !.product = it.product, !.qty = q,
                                            !.prior = it.qty,
                                            !.stock = products[it.product].stock]
                   IN IF q < 1 THEN Step(r, [base EXCEPT !.pc = "delete"])
                      ELSE IF NotEnoughStock(products[it.product].stock, q)
                           THEN ReturnWith(r, "patch", u, "InsufficientStock", it.qty,
                                           it.product, q)
                      ELSE Step(r, [base EXCEPT !.pc = "save", !.newQty = PatchedQty(it.qty, q)])
    /\ UNCHANGED <<products, cartItems, nextItemId, orders, proofs>>

\* partial_update, line 146 (item.delete()) or lines 150-151 (item.save())
PatchWrite(r) ==
    /\ req[r].op = "patch" /\ req[r].pc \in {"delete", "save"}
    /\ ~ItemLocked(r, req[r].item)
    /\ IF req[r].pc = "delete"
       THEN /\ cartItems' = cartItems \ ItemById(req[r].item)
            /\ Return(r, "patch", req[r].user, "OK", req[r].prior)
       ELSE IF SaveRejected(req[r].item, req[r].user, req[r].product)
       THEN /\ Return(r, "patch", req[r].user, "IntegrityError", req[r].prior)
            /\ UNCHANGED cartItems
       ELSE /\ cartItems' = SaveItem(req[r].item, req[r].user, req[r].product, req[r].newQty)
            /\ Return(r, "patch", req[r].user, "OK", req[r].prior)
    /\ UNCHANGED <<products, carts, nextItemId, orders, proofs>>
    /\ UNCHANGED <<left, inputs>>

\* destroy, lines 157-161
DestroyRead(r) ==
    /\ Accept(r)
    /\ \E u \in inputs.users, id \in 1..MaxItems :
        /\ get_or_create_cart(u)
        /\ IF ItemInCart(u, id) = {}
           THEN Return(r, "destroy", u, "NotFound", id)
           ELSE Step(r, [Idle EXCEPT !.op = "destroy", !.pc = "delete", !.user = u, !.item = id])
    /\ UNCHANGED <<products, cartItems, nextItemId, orders, proofs>>

\* destroy, lines 163-165: item.delete()
DestroyDelete(r) ==
    /\ req[r].op = "destroy" /\ req[r].pc = "delete"
    /\ ~ItemLocked(r, req[r].item)
    /\ cartItems' = cartItems \ ItemById(req[r].item)
    /\ Return(r, "destroy", req[r].user, "OK", 0)
    /\ UNCHANGED <<products, carts, nextItemId, orders, proofs>>
    /\ UNCHANGED <<left, inputs>>

\* ------------------------------------------------------------------ OrderViewSet
Checkouts == {r \in Reqs : req[r].op = "checkout"}

\* checkout, lines 231-242: the cart must hold an item
CheckoutBegin(r) ==
    /\ Accept(r)
    /\ Len(orders) + Cardinality(Checkouts) < MaxOrders
    /\ \E u \in inputs.users :
        /\ get_or_create_cart(u)
        /\ IF CartOf(u) = {}
           THEN Return(r, "checkout", u, "EmptyCart", 0)
           ELSE Step(r, [Idle EXCEPT !.op = "checkout", !.pc = "query", !.user = u])
    /\ UNCHANGED <<products, cartItems, nextItemId, orders, proofs>>

\* checkout, lines 244-252: transaction.atomic() begins and the locking query
\* CartItem.select_related("product").select_for_update().filter(cart=cart)
\* (first evaluated by the loop of line 255) sees the cart's rows of this instant
CheckoutQuery(r) ==
    /\ req[r].op = "checkout" /\ req[r].pc = "query"
    /\ Step(r, [req[r] EXCEPT !.pc = "lock", !.todo = {it.id : it \in CartOf(req[r].user)}])
    /\ UNCHANGED db
    /\ UNCHANGED <<left, inputs>>

\* the query of lines 247-252 without select_for_update(): it never waits
CanLockUnlocked(r, id, pid) == TRUE

\* select_for_update(): the row and the Product row joined to it are free
CanLock(r, id, pid) == ~ItemLocked(r, id) /\ ~ProductLocked(r, pid)

\* the locking query takes one more row: it locks the CartItem row and the
\* Product row joined to it, waiting while another transaction holds either,
\* and reads the rows as last committed; a row deleted meanwhile is passed
\* over. The query has no ORDER BY, so the rows come in any order.
CheckoutLock(r) ==
    /\ req[r].op = "checkout" /\ req[r].pc = "lock"
    /\ \E id \in req[r].todo :
        IF ItemById(id) = {}
        THEN /\ Step(r, [req[r] EXCEPT !.todo = @ \ {id}])
        ELSE LET it == CHOOSE x \in ItemById(id) : TRUE
                 p == products[it.product]
             IN /\ CanLock(r, id, it.product)
                /\ Step(r, [req[r] EXCEPT
                        !.todo = @ \ {id},
                        !.lines = Append(@, [item |-> id, product |-> it.product,
                                             qty |-> it.qty, stock |-> p.stock,
                                             name |-> p.name, final |-> final_price(p)])])
    /\ UNCHANGED db
    /\ UNCHANGED <<left, inputs>>

\* r waits for a row that o holds: in the locking query, or in the DELETE of
\* line 295 for a row of the cart that came after the locking query
WaitsFor(r, o) ==
    /\ req[r].op = "checkout"
    /\ InCheckout(o)
    /\ \E it \in cartItems :
        \/ /\ req[r].pc = "lock"
           /\ it.id \in req[r].todo
           /\ it.id \in HeldItems(o) \/ it.product \in HeldProducts(o)
        \/ /\ req[r].pc = "write"
           /\ it.cart = req[r].user
           /\ it.id \in HeldItems(o)

\* the database ends a lock cycle by aborting one of its transactions
CheckoutDeadlock(r) ==
    /\ \E o \in Reqs \ {r} : WaitsFor(r, o) /\ WaitsFor(o, r)
    /\ Return(r, "checkout", req[r].user, "TransactionFailure", 0)
    /\ UNCHANGED db
    /\ UNCHANGED <<left, inputs>>

\* the loop of lines 255-260 left out: no line is ever short
ShortLinesNone(lines) == {}

\* lines 255-256 testing for an empty shelf instead of stock < qty
ShortLinesOutOfStock(lines) == {i \in DOMAIN lines : lines[i].stock < 1}

\* the lines whose product has too little stock, lines 255-256
ShortLines(lines) == {i \in DOMAIN lines : NotEnoughStock(lines[i].stock, lines[i].qty)}

\* checkout, lines 254-260: the stock check under lock; the first short line
\* answers 400 from inside the atomic block, which commits having written nothing
CheckoutCheck(r) ==
    /\ req[r].op = "checkout" /\ req[r].pc = "lock" /\ req[r].todo = {}
    /\ LET short == ShortLines(req[r].lines)
       IN IF short # {}
          THEN LET i == CHOOSE x \in short : \A y \in short : x <= y
               IN Return(r, "checkout", req[r].user, "InsufficientStock", req[r].lines[i].product)
          ELSE Step(r, [req[r] EXCEPT !.pc = "gencode"])
    /\ UNCHANGED db
    /\ UNCHANGED <<left, inputs>>

OrderCodes == {orders[i].order_code : i \in DOMAIN orders}

\* the codes line 173 can draw in this run
CodeSpace == {Prefix \o t : t \in inputs.tokens}

\* line 175 read as if no Order ever held the drawn code
CodeTakenNever(c) == FALSE

\* line 175: Order.objects.filter(order_code=code).exists()
CodeTaken(c) == c \in OrderCodes

\* _gen_code, lines 171-176: draw a token, try again while an Order holds it
CheckoutGenCode(r) ==
    /\ req[r].op = "checkout" /\ req[r].pc = "gencode"
    /\ \E c \in CodeSpace :
        IF CodeTaken(c)
        THEN Step(r, req[r])
        ELSE Step(r, [req[r] EXCEPT !.pc = "write", !.code = c])
    /\ UNCHANGED db
    /\ UNCHANGED <<left, inputs>>

\* line 288 taking one unit too many and without the floor
ReduceStockOffByOne(stock, qty) == stock - qty - 1

\* line 288: p.stock = max(0, p.stock - qty)
ReduceStock(stock, qty) == Max(0, stock - qty)

\* lines 273-285: one OrderItem per locked line, unit_price = Decimal(p.final_price)
\* written to a two-place column
OrderItems(lines, mode) ==
    [i \in DOMAIN lines |->
        [product |-> lines[i].product, product_name |-> lines[i].name,
         unit_price |-> Quantize2(lines[i].final, mode), qty |-> lines[i].qty]]

\* lines 272, 285: total += unit_price * Decimal(qty), on the unrounded price
RunningTotal(lines) == SumSeq([i \in DOMAIN lines |-> lines[i].final * lines[i].qty])

\* the stock column after the transaction's writes (save(update_fields=["stock"]))
StockWritten(lines) ==
    [p \in Products |->
        IF \E i \in DOMAIN lines : lines[i].product = p
        THEN LET i == CHOOSE x \in DOMAIN lines : lines[x].product = p
             IN [products[p] EXCEPT !.stock = ReduceStock(lines[i].stock, lines[i].qty)]
        ELSE products[p]]

\* Order.order_code without unique=True: no row is rejected
CodeRejectedNever(code) == FALSE

\* models.py line 124: order_code is unique, so the INSERT of an Order whose
\* code a committed Order holds is rejected
CodeRejected(code) == code \in OrderCodes

\* checkout, lines 262-300: Order.objects.create with total 0 (rejected when a
\* committed Order holds the order_code: unique=True), per line the OrderItem
\* and the stock write, the total, locked_items.delete() (a DELETE of the
\* cart's rows of this instant, waiting for rows another transaction holds),
\* and the commit that publishes every write of the transaction at once
CheckoutWrite(r) ==
    /\ req[r].op = "checkout" /\ req[r].pc = "write"
    /\ IF CodeRejected(req[r].code)
       THEN /\ Return(r, "checkout", req[r].user, "IntegrityError", 0)
            /\ UNCHANGED db
       ELSE /\ \A it \in CartOf(req[r].user) : ~ItemLocked(r, it.id)
            /\ \E mode \in RoundModes :
                orders' = Append(orders,
                    [user |-> req[r].user, order_code |-> req[r].code,
                     status |-> "PENDING_PAYMENT",
                     total |-> Quantize2(RunningTotal(req[r].lines), mode),
                     items |-> OrderItems(req[r].lines, mode)])
            /\ products' = StockWritten(req[r].lines)
            /\ cartItems' = cartItems \ CartOf(req[r].user)
            /\ Return(r, "checkout", req[r].user, "Created", Len(orders) + 1)
            /\ UNCHANGED <<carts, nextItemId, proofs>>
    /\ UNCHANGED <<left, inputs>>

\* the writes without transaction.atomic(): the Order of line 262, with its
\* total of 0, and the OrderItems of the k passes made stay written
CheckoutOrdersKeptAfterFailure(r, k) ==
    Append(orders,
        [user |-> req[r].user, order_code |-> req[r].code, status |-> "PENDING_PAYMENT",
         total |-> 0, items |-> SubSeq(OrderItems(req[r].lines, "HALF_UP"), 1, k)])

\* transaction.atomic(), line 244: an exception that leaves the block undoes
\* the writes made inside it
CheckoutOrdersAfterFailure(r, k) == orders

\* checkout, lines 262-295: the Order is inserted, k passes of the loop write
\* their OrderItem and stock, and the next write raises (the store rejects
\* it); the exception leaves the atomic block and the transaction is rolled back
CheckoutFail(r) ==
    /\ req[r].op = "checkout" /\ req[r].pc = "write"
    /\ ~CodeRejected(req[r].code)
    /\ \E k \in 0..Len(req[r].lines) :
        /\ orders' = CheckoutOrdersAfterFailure(r, k)
        /\ Return(r, "checkout", req[r].user, "TransactionFailure", k)
    /\ UNCHANGED <<products, carts, cartItems, nextItemId, proofs>>
    /\ UNCHANGED <<left, inputs>>

ProofsOf(oid) == {i \in DOMAIN proofs : proofs[i].order = oid}

\* upload_proof, lines 305-314: get_object() on the caller's orders, the
\* hasattr(order, "payment_proof") test and the image test
UploadRead(r) ==
    /\ Accept(r)
    /\ \E u \in inputs.users, oid \in 1..MaxOrders, img \in Images \cup {NoImage}, n \in Notes :
        IF ~(oid \in DOMAIN orders /\ orders[oid].user = u)
        THEN Return(r, "upload", u, "NotFound", oid)
        ELSE IF ProofsOf(oid) # {} THEN Return(r, "upload", u, "Conflict", oid)
        ELSE IF img = NoImage THEN Return(r, "upload", u, "ValidationError", oid)
        ELSE Step(r, [Idle EXCEPT !.op = "upload", !.pc = "create", !.user = u,
                                  !.target = oid, !.image = img, !.note = n])
    /\ UNCHANGED db

\* PaymentProof.order as a plain ForeignKey: no row is rejected
ProofRejectedNever(oid) == FALSE

\* models.py line 152: the OneToOneField makes order_id unique, so the INSERT
\* of a second row for the order is rejected
ProofRejected(oid) == ProofsOf(oid) # {}

\* upload_proof, lines 316-325: PaymentProof.objects.create
UploadCreate(r) ==
    /\ req[r].op = "upload" /\ req[r].pc = "create"
    /\ IF ProofRejected(req[r].target)
       THEN /\ Return(r, "upload", req[r].user, "IntegrityError", req[r].target)
            /\ UNCHANGED proofs
       ELSE /\ proofs' = Append(proofs, [order |-> req[r].target, image |-> req[r].image,
                                         note |-> req[r].note, status |-> "PENDING"])
            /\ Return(r, "upload", req[r].user, "Created", req[r].target)
    /\ UNCHANGED <<products, carts, cartItems, nextItemId, orders>>
    /\ UNCHANGED <<left, inputs>>

\* ------------------------------------------------------------ PaymentProofAdmin
\* lines 149 and 161: the proof status the action writes
ProofStatusFor(decision) == IF decision = "approve" THEN "APPROVED" ELSE "REJECTED"
\* line 164 writing PAID as line 152 does
OrderStatusForAlwaysPaid(decision) == "PAID"

\* lines 152 and 164: the Order status the action writes
OrderStatusFor(decision) == IF decision = "approve" THEN "PAID" ELSE "REJECTED"

Verifying(r) == req[r].op = "verify"
ProofLocked(r, i) == \E o \in Reqs \ {r} : Verifying(o) /\ i \in req[o].sel

\* approve_proof / reject_proof, lines 147-148 and 159-160: the atomic block
\* begins and queryset.select_related("order").select_for_update() locks the
\* selected proofs and their orders (the changelist orders them, so two
\* actions take their locks in the same order)
VerifyStart(r) ==
    /\ Accept(r)
    /\ \E d \in {"approve", "reject"}, sel \in (SUBSET DOMAIN proofs) \ {{}} :
        /\ \A i \in sel : ~ProofLocked(r, i)
        /\ Step(r, [Idle EXCEPT !.op = "verify", !.pc = "loop", !.decision = d, !.sel = sel])
    /\ UNCHANGED db

\* the rows after the transaction's writes
ProofsWritten(sel, decision) ==
    [i \in DOMAIN proofs |->
        IF i \in sel THEN [proofs[i] EXCEPT !.status = ProofStatusFor(decision)] ELSE proofs[i]]

OrdersWritten(sel, decision) ==
    [o \in DOMAIN orders |->
        IF \E i \in sel : proofs[i].order = o
        THEN [orders[o] EXCEPT !.status = OrderStatusFor(decision)] ELSE orders[o]]

\* the first k of the selected proofs in the order of the loop, newest first
\* (ordering = -created_at)
FirstPasses(sel, k) == {i \in sel : Cardinality({j \in sel : j > i}) < k}

\* the loop without transaction.atomic(): every save() commits on its own, so
\* the proofs of k + 1 passes and the orders of k passes stay written
ProofsKeptAfterFailure(sel, decision, k) == ProofsWritten(FirstPasses(sel, k + 1), decision)

OrdersKeptAfterFailure(sel, decision, k) == OrdersWritten(FirstPasses(sel, k), decision)

\* transaction.atomic(), lines 147 and 159: an exception that leaves the block
\* undoes the writes made inside it (k passes, and the proof of pass k + 1)
ProofsAfterFailure(sel, decision, k) == proofs

OrdersAfterFailure(sel, decision, k) == orders

\* lines 149-153 and 161-165: in pass k + 1 of the loop the proof is saved and
\* the save() of its order raises (the store rejects the write)
VerifyFail(r) ==
    /\ Verifying(r) /\ req[r].pc = "loop"
    /\ \E k \in 0..(Cardinality(req[r].sel) - 1) :
        /\ proofs' = ProofsAfterFailure(req[r].sel, req[r].decision, k)
        /\ orders' = OrdersAfterFailure(req[r].sel, req[r].decision, k)
        /\ Return(r, "verify", "operator", "TransactionFailure", k)
    /\ UNCHANGED <<products, carts, cartItems, nextItemId>>
    /\ UNCHANGED <<left, inputs>>

\* lines 149-154 and 161-166: every pass of the loop writes the proof's status
\* and its order's status; the atomic block ends, the transaction commits and the
\* action reports the count
VerifyCommit(r) ==
    /\ Verifying(r) /\ req[r].pc = "loop"
    /\ proofs' = ProofsWritten(req[r].sel, req[r].decision)
    /\ orders' = OrdersWritten(req[r].sel, req[r].decision)
    /\ Return(r, "verify", "operator", req[r].decision, Cardinality(req[r].sel))
    /\ UNCHANGED <<products, carts, cartItems, nextItemId>>
    /\ UNCHANGED <<left, inputs>>

\* ------------------------------------------------------------ ProductViewSet
\* update / partial_update of the ModelViewSet (and the change form of
\* ProductAdmin): get_object() loads the row of an active product and the
\* serializer sets the fields of the request on it; name, price,
\* discount_percent and stock are all writable fields of ProductSerializer
ProductUpdateRead(r) ==
    /\ Accept(r)
    /\ \E pid \in inputs.products, n \in Names, pr \in Prices, dp \in Discounts,
          restock \in BOOLEAN :
        IF ~(pid \in Products /\ products[pid].is_active)
        THEN ReturnWith(r, "product", "editor", "NotFound", 0, pid, 0)
        ELSE Step(r, [Idle EXCEPT !.op = "product", !.pc = "save", !.user = "editor",
                                  !.product = pid,
                                  !.row = [products[pid] EXCEPT
                                              !.name = n, !.price = pr,
                                              !.discount_percent = dp,
                                              !.stock = IF restock THEN MaxStock ELSE @]])
    /\ UNCHANGED db

\* Product.save(), models.py lines 62-64: is_in_stock is recomputed and every
\* column of the row is written from the instance in memory, the stock it
\* loaded included; the UPDATE waits while a checkout holds the row
ProductUpdateSave(r) ==
    /\ req[r].op = "product" /\ req[r].pc = "save"
    /\ ~ProductLocked(r, req[r].product)
    /\ products' = [products EXCEPT ![req[r].product] =
                        [req[r].row EXCEPT !.is_in_stock = req[r].row.stock > 0]]
    /\ Return(r, "product", "editor", "OK", 0)
    /\ UNCHANGED <<carts, cartItems, nextItemId, orders, proofs>>
    /\ UNCHANGED <<left, inputs>>

\* retrieve / list, serializers.py lines 76-77: get_final_price renders
\* obj.final_price of an active product
ProductRetrieve(r) ==
    /\ Accept(r)
    /\ \E pid \in inputs.products :
        IF ~(pid \in Products /\ products[pid].is_active)
        THEN ReturnWith(r, "view", "anyone", "NotFound", 0, pid, 0)
        ELSE ReturnWith(r, "view", "anyone", "OK", final_price(products[pid]), pid, 0)
    /\ UNCHANGED db

\* ------------------------------------------------------------ OrderItemSerializer
\* an order line rendered from the live Product instead of the stored columns
OrderItemViewLive(item) ==
    [product |-> item.product,
     product_name |-> products[item.product].name,
     unit_price |-> Quantize2(final_price(products[item.product]), "HALF_UP"),
     qty |-> item.qty,
     line_total |-> Quantize2(final_price(products[item.product]), "HALF_UP") * item.qty]

\* serializers.py lines 164-200: product_name, unit_price and qty are the
\* stored columns, line_total = Decimal(obj.unit_price) * Decimal(obj.qty)
OrderItemView(item) ==
    [product |-> item.product,
     product_name |-> item.product_name,
     unit_price |-> item.unit_price,
     qty |-> item.qty,
     line_total |-> item.unit_price * item.qty]

\* OrderDetailSerializer, serializers.py lines 225-252
OrderDetailView(order) ==
    [order_code |-> order.order_code, status |-> order.status, total |-> order.total,
     items_count |-> Len(order.items),
     items |-> [i \in DOMAIN order.items |-> OrderItemView(order.items[i])]]

\* ------------------------------------------------------------------ Spec
ProductStep(r) ==
    \/ ProductUpdateRead(r)
    \/ ProductUpdateSave(r)

CartStep(r) ==
    \/ AddRead(r)
    \/ AddGetOrCreate(r)
    \/ AddSave(r)
    \/ PatchRead(r)
    \/ PatchWrite(r)
    \/ DestroyRead(r)
    \/ DestroyDelete(r)

AddStep(r) ==
    \/ AddRead(r)
    \/ AddGetOrCreate(r)
    \/ AddSave(r)

\* a checkout with no other checkout beside it
LoneCheckoutStep(r) ==
    \/ CheckoutBegin(r)
    \/ CheckoutQuery(r)
    \/ CheckoutLock(r)
    \/ CheckoutCheck(r)
    \/ CheckoutGenCode(r)
    \/ CheckoutWrite(r)
    \/ CheckoutFail(r)

CheckoutStep(r) ==
    \/ LoneCheckoutStep(r)
    \/ CheckoutDeadlock(r)

ProofStep(r) ==
    \/ UploadRead(r)
    \/ UploadCreate(r)
    \/ VerifyStart(r)
    \/ VerifyFail(r)
    \/ VerifyCommit(r)

\* every operation, any two requests at a time, MaxRequests requests in all
Next == \E r \in Reqs : CartStep(r) \/ CheckoutStep(r) \/ ProofStep(r)

Spec == Init /\ [][Next]_vars

\* the cart operations alone, any two at a time, without end
InitCart == InitStore /\ left = Unlimited /\ inputs = AllInputs

NextCart == \E r \in Reqs : CartStep(r)

SpecCart == InitCart /\ [][NextCart]_vars

\* the cart operations one request at a time
NextCartSeq == CartStep(1)

SpecCartSeq == InitCart /\ [][NextCartSeq]_vars

\* adds and checkouts, any two at a time
InitCheckout ==
    /\ InitStore
    /\ left = Unlimited
    /\ inputs = [users |-> Buyers, products |-> Products, qtys |-> 1..MaxQty,
                 tokens |-> Tokens]

NextCheckout == \E r \in Reqs : AddStep(r) \/ CheckoutStep(r)

SpecCheckout == InitCheckout /\ [][NextCheckout]_vars

\* adds and checkouts one request at a time, the draws of line 173 ranging over
\* one token or over both
InitCodes ==
    /\ InitStore
    /\ left = Unlimited
    /\ \E ts \in (SUBSET Tokens) \ {{}} :
        inputs = [users |-> Buyers, products |-> Products, qtys |-> 1..MaxQty,
                  tokens |-> ts]

NextCodes == AddStep(1) \/ LoneCheckoutStep(1)

SpecCodes == InitCodes /\ [][NextCodes]_vars

\* random.choices, line 173: every code of the space has a positive
\* probability at each draw, so a loop that can leave on some draw does leave
SpecCodesFair == SpecCodes /\ WF_vars(CheckoutGenCode(1))

\* orders of one unit of product 1 made one request at a time; uploads and
\* verifications of their proofs, any two at a time
InitProof ==
    /\ InitStore
    /\ left = Unlimited
    /\ inputs = [users |-> Buyers, products |-> {1}, qtys |-> {1},
                 tokens |-> Tokens]

NextProof ==
    \/ AddStep(1) \/ LoneCheckoutStep(1)
    \/ \E r \in Reqs : ProofStep(r)

SpecProof == InitProof /\ [][NextProof]_vars

\* orders of one unit of product 1 by one buyer, made one request at a time,
\* and edits of the product's name, price and discount, any two at a time;
\* MaxRequests requests in all
InitCatalog ==
    /\ InitStore
    /\ left = MaxRequests
    /\ inputs = [users |-> {"alice"}, products |-> {1}, qtys |-> {1},
                 tokens |-> Tokens]

NextCatalog ==
    \/ AddStep(1) \/ LoneCheckoutStep(1)
    \/ \E r \in Reqs : ProductStep(r)

SpecCatalog == InitCatalog /\ [][NextCatalog]_vars

\* checkouts, any two at a time, of two buyers whose carts hold one unit of
\* each product, put there in opposite orders
InitLocks ==
    /\ products = InitialProducts
    /\ carts = Buyers
    /\ cartItems = {[id |-> 1, cart |-> "alice", product |-> 1, qty |-> 1],
                    [id |-> 2, cart |-> "alice", product |-> 2, qty |-> 1],
                    [id |-> 3, cart |-> "bob", product |-> 2, qty |-> 1],
                    [id |-> 4, cart |-> "bob", product |-> 1, qty |-> 1]}
    /\ nextItemId = 5
    /\ orders = <<>>
    /\ proofs = <<>>
    /\ req = [r \in Reqs |-> Idle]
    /\ last = NoResponse
    /\ left = Unlimited
    /\ inputs = [users |-> Buyers, products |-> Products, qtys |-> {1},
                 tokens |-> Tokens]

NextLocks == \E r \in Reqs : CheckoutStep(r)

SpecLocks == InitLocks /\ [][NextLocks]_vars

\* a catalogue of any sampled prices (in cents) and discount percents, and
\* views of its products
PriceSamples == {0, 1, 33, 100000}
DiscountSamples == {0, 1, 10, 100, 150}

InitPrice ==
    /\ products \in [Products -> {[InitialProducts[1] EXCEPT !.price = pr, !.discount_percent = dp] :
                                      pr \in PriceSamples, dp \in DiscountSamples}]
    /\ carts = {}
    /\ cartItems = {}
    /\ nextItemId = 1
    /\ orders = <<>>
    /\ proofs = <<>>
    /\ req = [r \in Reqs |-> Idle]
    /\ last = NoResponse
    /\ left = Unlimited
    /\ inputs = AllInputs

NextPrice == ProductRetrieve(1)

SpecPrice == InitPrice /\ [][NextPrice]_vars

\* ------------------------------------------------------------------ claims
\* units of product p in the committed orders
OrderedQty(p) ==
    SumSeq([o \in DOMAIN orders |->
        SumSeq([i \in DOMAIN orders[o].items |->
            IF orders[o].items[i].product = p THEN orders[o].items[i].qty ELSE 0])])

\* request r answers in this step
Ends(r, o) == req[r].op = o /\ req'[r].pc = "idle"

\* a request for operation o is taken and answered in this one step
Immediate(o) == req' = req /\ last'.op = o

\* C1: in every reachable state, whatever cart operations, checkouts, proof
\* uploads and proof verifications ran and however they interleaved, every
\* product's stock is >= 0.
C1_StockNeverNegative == \A p \in Products : products[p].stock >= 0

\* a checkout has just taken a product's last unit
C1_Witness ==
    /\ last.op = "checkout" /\ last.result = "Created"
    /\ \E i \in DOMAIN orders[last.detail].items :
        products[orders[last.detail].items[i].product].stock = 0

\* C2: concurrent checkouts never sell more units of a product than it had:
\* the quantities of a product in the committed orders add up to at most its
\* initial stock and, with the stock left, to exactly that; a checkout creates
\* its Order only if every line's qty is within the stock committed at that
\* instant, which it reduces by exactly qty, and a checkout that fails with
\* InsufficientStock has a line whose qty exceeds the committed stock and
\* changes nothing. So of N checkouts for qty 1 of a product with stock 1 one
\* creates an Order, the others fail with InsufficientStock, and stock ends 0.
C2_StepOk ==
    /\ orders' # orders \/ products' # products =>
        \A p \in Products :
            /\ OrderedQty(p)' <= InitialStock[p]
            /\ OrderedQty(p)' + products'[p].stock = InitialStock[p]
    /\ \A r \in Reqs :
        /\ Ends(r, "checkout") /\ last'.result = "Created" =>
            \A i \in DOMAIN req[r].lines :
                LET l == req[r].lines[i]
                IN /\ products[l.product].stock >= l.qty
                   /\ products'[l.product].stock = products[l.product].stock - l.qty
        /\ Ends(r, "checkout") /\ last'.result = "InsufficientStock" =>
            /\ \E i \in DOMAIN req[r].lines :
                LET l == req[r].lines[i]
                IN l.product = last'.detail /\ products[l.product].stock < l.qty
            /\ orders' = orders /\ products' = products

C2_NoOversell == [][C2_StepOk]_vars

\* a checkout has just created its Order with the last unit of a product while
\* another buyer's checkout waits for the lock on that product
C2_Witness ==
    /\ last.op = "checkout" /\ last.result = "Created"
    /\ \E r \in Reqs, it \in cartItems :
        /\ req[r].op = "checkout" /\ req[r].pc = "lock"
        /\ req[r].user # last.user
        /\ it.id \in req[r].todo /\ it.qty = 1
        /\ InitialStock[it.product] = 1 /\ products[it.product].stock = 0
        /\ \E i \in DOMAIN orders[last.detail].items :
            orders[last.detail].items[i].product = it.product

\* the sum over an order's items of the stored unit_price x qty, in cents
ItemsTotal(order) ==
    SumSeq([i \in DOMAIN order.items |-> order.items[i].unit_price * order.items[i].qty])

\* C3: for every Order of a completed checkout the stored Order.total equals
\* the sum over its OrderItems of the stored unit_price x qty.
C3_TotalIsSumOfItems == \A o \in DOMAIN orders : orders[o].total = ItemsTotal(orders[o])

\* C4: a checkout in which a line's qty exceeds its product's stock as read
\* under lock fails with InsufficientStock naming such a product, creates no
\* Order or OrderItem, changes no stock and leaves the cart's items unchanged.
C4_StepOk ==
    \A r \in Reqs :
        LET short == {i \in DOMAIN req[r].lines : req[r].lines[i].stock < req[r].lines[i].qty}
        IN (/\ req[r].op = "checkout" /\ req[r].pc = "lock" /\ req[r].todo = {}
            /\ short # {}
            /\ req'[r] # req[r])
           => /\ last'.op = "checkout" /\ last'.result = "InsufficientStock"
              /\ \E i \in short : req[r].lines[i].product = last'.detail
              /\ orders' = orders
              /\ products' = products
              /\ cartItems' = cartItems

C4_ShortLineFailsCleanly == [][C4_StepOk]_vars

\* a checkout has just failed on a product of which its cart asks more than is left
C4_Witness ==
    /\ last.op = "checkout" /\ last.result = "InsufficientStock"
    /\ \E it \in CartOf(last.user) :
        it.product = last.detail /\ it.qty > products[it.product].stock

\* C5: a successful checkout of a cart with lines (product_i, qty_i) creates
\* exactly one Order, PENDING_PAYMENT and owned by the buyer, with one OrderItem
\* per line carrying the line's product, qty_i and unit_price =
\* finalPrice(product_i); it reduces each product_i's stock by qty_i and leaves
\* the buyer's cart empty.
C5_StepOk ==
    \A r \in Reqs :
        Ends(r, "checkout") /\ last'.result = "Created" =>
            LET lines == req[r].lines
                new == orders'[Len(orders')]
            IN /\ Len(orders') = Len(orders) + 1
               /\ \A o \in DOMAIN orders : orders'[o] = orders[o]
               /\ new.status = "PENDING_PAYMENT" /\ new.user = req[r].user
               /\ Len(new.items) = Len(lines)
               /\ \A i \in DOMAIN lines :
                    /\ new.items[i].product = lines[i].product
                    /\ new.items[i].qty = lines[i].qty
                    /\ new.items[i].unit_price * 100 = final_price(products[lines[i].product])
                    /\ products'[lines[i].product].stock =
                           products[lines[i].product].stock - lines[i].qty
               /\ {it \in cartItems' : it.cart = req[r].user} = {}

C5_CheckoutCreatesOrder == [][C5_StepOk]_vars

\* C6: approving a selected proof sets it to APPROVED and its Order to PAID,
\* rejecting it sets it to REJECTED and its Order to REJECTED; the two writes
\* show together: a step that changes a proof's status is the commit of a
\* verification and changes its Order's status to the matching one in the same
\* step, and when the Order-side write fails the proof and the Order both keep
\* the status they had.
C6_StepOk ==
    /\ \A i \in DOMAIN proofs :
        proofs'[i].status # proofs[i].status =>
            /\ last'.op = "verify" /\ last'.result \in {"approve", "reject"}
            /\ proofs'[i].status = ProofStatusFor(last'.result)
            /\ orders'[proofs[i].order].status = OrderStatusFor(last'.result)
    /\ \A r \in Reqs :
        Ends(r, "verify") =>
            \A i \in req[r].sel :
                LET o == proofs[i].order
                IN /\ last'.result = "approve" =>
                        proofs'[i].status = "APPROVED" /\ orders'[o].status = "PAID"
                   /\ last'.result = "reject" =>
                        proofs'[i].status = "REJECTED" /\ orders'[o].status = "REJECTED"
                   /\ last'.result = "TransactionFailure" =>
                        /\ proofs'[i].status = proofs[i].status
                        /\ orders'[o].status = orders[o].status

C6_VerifyWritesBothOrNeither == [][C6_StepOk]_vars

\* an approval has just committed: a proof is APPROVED and its Order PAID
C6_Witness ==
    /\ last.op = "verify" /\ last.result = "approve"
    /\ \E i \in DOMAIN proofs :
        proofs[i].status = "APPROVED" /\ orders[proofs[i].order].status = "PAID"

\* C7: a bulk approve or reject is all-or-nothing: the call either reports its
\* decision with a count equal to the batch size, every selected proof and its
\* Order then carrying the decision's statuses, or fails, and then no proof and
\* no Order differs from what it was before the call.
C7_StepOk ==
    \A r \in Reqs :
        Ends(r, "verify") =>
            \/ /\ last'.result = req[r].decision
               /\ last'.detail = Cardinality(req[r].sel)
               /\ \A i \in req[r].sel :
                    /\ proofs'[i].status = ProofStatusFor(req[r].decision)
                    /\ orders'[proofs[i].order].status = OrderStatusFor(req[r].decision)
            \/ /\ last'.result = "TransactionFailure"
               /\ proofs' = proofs
               /\ orders' = orders

C7_BulkVerifyAllOrNothing == [][C7_StepOk]_vars

\* a batch of two proofs has just failed in its second pass, after the first
\* proof and its Order were written, and both proofs are as they were
C7_Witness ==
    /\ last.op = "verify" /\ last.result = "TransactionFailure" /\ last.detail = 1
    /\ Len(proofs) = 2
    /\ \A i \in DOMAIN proofs :
        proofs[i].status = "PENDING" /\ orders[proofs[i].order].status = "PENDING_PAYMENT"

\* C8: in every reachable state an Order has at most one PaymentProof, also
\* when two uploads for it run together; an upload for an Order that has a
\* proof answers Conflict and leaves the proofs (image, note, status) as they
\* were; of two uploads that both found no proof one creates the proof and the
\* other is rejected by the store, which leaves the proof of the first as it is.
C8_StepOk ==
    /\ \A oid \in DOMAIN orders' : Cardinality({i \in DOMAIN proofs' : proofs'[i].order = oid}) <= 1
    /\ \A i \in DOMAIN proofs :
        /\ proofs'[i].order = proofs[i].order
        /\ proofs'[i].image = proofs[i].image
        /\ proofs'[i].note = proofs[i].note
    /\ \A r \in Reqs :
        /\ req[r].pc = "idle" /\ req'[r].op = "upload" => ProofsOf(req'[r].target) = {}
        /\ Immediate("upload")
              /\ last'.detail \in DOMAIN orders /\ orders[last'.detail].user = last'.user
              /\ ProofsOf(last'.detail) # {}
              => last'.result = "Conflict"
        /\ Ends(r, "upload") /\ last'.result = "IntegrityError" =>
              ProofsOf(req[r].target) # {} /\ proofs' = proofs
    /\ last'.op = "upload" /\ last'.result = "Conflict" =>
        /\ ProofsOf(last'.detail) # {}
        /\ proofs' = proofs

C8_OneProofPerOrder == [][C8_StepOk]_vars

\* an upload for an Order that has a proof has just been answered Conflict
C8_Witness ==
    /\ last.op = "upload" /\ last.result = "Conflict"
    /\ Cardinality(ProofsOf(last.detail)) = 1

\* the qty of the cart's line for a product, 0 when the cart has none
HeldQty(items, u, pid) ==
    LET found == {it \in items : it.cart = u /\ it.product = pid}
    IN IF found = {} THEN 0 ELSE (CHOOSE it \in found : TRUE).qty

\* C9: an add of qty >= 1 of an active product, served on its own, succeeds
\* exactly when the resulting quantity (the qty the cart holds of the product,
\* 0 if none, plus qty) is within the product's stock; on success the cart
\* holds one CartItem of the product with the resulting quantity, and on
\* InsufficientStock no CartItem is created or changed.
C9_StepOk ==
    \A r \in Reqs :
        /\ Immediate("add") /\ last'.qty >= 1
              /\ last'.product \in Products =>
              /\ last'.result = "InsufficientStock"
              /\ HeldQty(cartItems, last'.user, last'.product) + last'.qty
                    > products[last'.product].stock
              /\ cartItems' = cartItems
        /\ req[r].op = "add" /\ req[r].pc = "getorcreate" =>
              LET before == HeldQty(cartItems, req[r].user, req[r].product)
              IN IF before + req[r].qty > products[req[r].product].stock
                 THEN /\ last'.op = "add" /\ last'.result = "InsufficientStock"
                      /\ cartItems' = cartItems
                 ELSE /\ req'[r].pc = "save" /\ req'[r].prior = before
                      /\ \A it \in cartItems' : it \in cartItems \/ it.id = req'[r].item
        /\ req[r].op = "add" /\ req[r].pc = "save" /\ req'[r] # req[r] =>
              LET mine == {it \in cartItems' :
                              it.cart = req[r].user /\ it.product = req[r].product}
              IN /\ last'.op = "add" /\ last'.result = "OK"
                 /\ Cardinality(mine) = 1
                 /\ \A it \in mine :
                        /\ it.qty = req[r].prior + req[r].qty
                        /\ it.qty <= products[req[r].product].stock
                 /\ \A it \in cartItems' : it \in mine \/ it \in cartItems
                 /\ \A it \in cartItems : it.id = req[r].item \/ it \in cartItems'

C9_AddIsAdditiveWithinStock == [][C9_StepOk]_vars

\* an add of 1 to a line of qty 1 has just succeeded and the line holds 2
C9_Witness ==
    /\ last.op = "add" /\ last.result = "OK" /\ last.detail = 1 /\ last.qty = 1
    /\ HeldQty(cartItems, last.user, last.product) = 2

\* C10: setQuantity on an item of the caller's cart, served on its own: with
\* qty < 1 the item is deleted; with 1 <= qty <= the product's stock the item's
\* qty becomes qty whatever it was; with qty > stock the call fails with
\* InsufficientStock and the item keeps its qty.
C10_StepOk ==
    \A r \in Reqs :
        /\ req[r].pc = "idle" /\ req'[r].op = "patch" =>
              LET q == req'[r].qty
                  stock == products[req'[r].product].stock
              IN /\ \E it \in CartOf(req'[r].user) :
                        it.id = req'[r].item /\ it.product = req'[r].product
                            /\ it.qty = req'[r].prior
                 /\ req'[r].pc = "delete" <=> q < 1
                 /\ req'[r].pc = "save" <=> (1 <= q /\ q <= stock)
                 /\ cartItems' = cartItems
        /\ Immediate("patch") /\ last'.result # "NotFound" =>
              /\ last'.result = "InsufficientStock"
              /\ last'.qty >= 1 /\ last'.qty > products[last'.product].stock
              /\ HeldQty(cartItems', last'.user, last'.product) = last'.detail
              /\ cartItems' = cartItems
        /\ req[r].op = "patch" /\ req[r].pc = "delete" /\ req'[r] # req[r] =>
              /\ last'.op = "patch" /\ last'.result = "OK"
              /\ cartItems' = {it \in cartItems : it.id # req[r].item}
        /\ req[r].op = "patch" /\ req[r].pc = "save" /\ req'[r] # req[r] =>
              /\ last'.op = "patch" /\ last'.result = "OK"
              /\ cartItems' =
                    {IF it.id = req[r].item THEN [it EXCEPT !.qty = req[r].qty] ELSE it :
                        it \in cartItems}
              /\ \E it \in cartItems' : it.id = req[r].item /\ it.qty = req[r].qty

C10_SetQuantityIsAbsolute == [][C10_StepOk]_vars

\* a setQuantity of 1 on a line of qty 2 has just succeeded and the line holds 1
C10_Witness ==
    /\ last.op = "patch" /\ last.result = "OK" /\ last.qty = 1 /\ last.detail = 2
    /\ HeldQty(cartItems, last.user, last.product) = 1

\* C11: remove(itemId) deletes the item when the caller's cart holds it, and
\* a remove of an item the cart does not hold (a second remove of the same
\* item, say) is not an error: it is answered like a successful remove, with
\* the cart view, and leaves the cart's items as they were.
C11_StepOk ==
    /\ \A r \in Reqs :
        req[r].op = "destroy" /\ req[r].pc = "delete" /\ req'[r] # req[r] =>
            /\ last'.op = "destroy" /\ last'.result = "OK"
            /\ cartItems' = {it \in cartItems : it.id # req[r].item}
    /\ Immediate("destroy") =>
        /\ last'.result = "OK"
        /\ cartItems' = cartItems

C11_RemoveOfAbsentItemIsNoError == [][C11_StepOk]_vars

\* C12: in every reachable state no two Orders have the same order code, also
\* when two checkouts running together drew the same token, and every order
\* code is the prefix KH followed by 10 characters, each an upper-case letter
\* or a digit: 12 characters in all.
C12_OrderCodesUniqueAndWellFormed ==
    /\ \A a, b \in DOMAIN orders : orders[a].order_code = orders[b].order_code => a = b
    /\ \A o \in DOMAIN orders :
        LET code == orders[o].order_code
        IN /\ Len(code) = 12
           /\ code[1] = "K" /\ code[2] = "H"
           /\ \A i \in 3..12 : code[i] \in Alphabet

\* two checkouts drew the same token: one created its Order and the other,
\* of another buyer, has just been refused
C12_Witness ==
    /\ last.op = "checkout" /\ last.result = "IntegrityError"
    /\ Len(orders) = 1
    /\ orders[1].user # last.user
    /\ orders[1].order_code \in Codes

\* C13: a checkout of an empty cart answers EmptyCart and creates no Order, and
\* every Order of every reachable state has at least one OrderItem, also when
\* two checkouts of the same buyer's cart run together.
C13_StepOk ==
    /\ Immediate("checkout") =>
        /\ last'.result = "EmptyCart"
        /\ CartOf(last'.user) = {}
        /\ orders' = orders
    /\ \A o \in DOMAIN orders' : Len(orders'[o].items) >= 1

C13_NoEmptyOrder == [][C13_StepOk]_vars

\* C14: once an Order exists, a change of a product's price, discount percent
\* or name leaves the unit_price, product_name and qty of every OrderItem of
\* the Order and the Order's total as they were, in the store and in the order
\* detail that is rendered from it.
C14_StepOk ==
    (\E r \in Reqs : req[r].op = "product" /\ req'[r] # req[r]) =>
        \A o \in DOMAIN orders :
            /\ o \in DOMAIN orders'
            /\ orders'[o].total = orders[o].total
            /\ Len(orders'[o].items) = Len(orders[o].items)
            /\ \A i \in DOMAIN orders[o].items :
                /\ orders'[o].items[i].unit_price = orders[o].items[i].unit_price
                /\ orders'[o].items[i].product_name = orders[o].items[i].product_name
                /\ orders'[o].items[i].qty = orders[o].items[i].qty
            /\ OrderDetailView(orders[o])' = OrderDetailView(orders[o])

C14_OrdersKeepTheirSnapshot == [][C14_StepOk]_vars

\* a product of an Order has just been renamed and repriced: the Order's line
\* holds the name and the price of the checkout
C14_Witness ==
    /\ last.op = "product" /\ last.result = "OK"
    /\ \E o \in DOMAIN orders : \E i \in DOMAIN orders[o].items :
        LET item == orders[o].items[i]
            p == products[item.product]
        IN /\ item.product = last.product
           /\ item.product_name # p.name
           /\ item.unit_price * 100 # final_price(p)
           /\ item.unit_price # Quantize2(final_price(p), "HALF_UP")

\* C15: finalPrice(product) is price - price x discountPercent / 100, exactly,
\* for every price and discount percent (in units of 1/10000: 100 x price in
\* cents less price in cents x discountPercent); a discount of 0 gives the
\* price; finalPrice(1000, 10) = 900 and finalPrice(1000, 0) = 1000.
C15_FinalPriceIsExact ==
    /\ \A p \in Products :
        LET row == products[p]
        IN /\ final_price(row) * 100 = row.price * 100 * (100 - row.discount_percent)
           /\ row.discount_percent = 0 => final_price(row) = row.price * 100
           /\ (row.price = 100000 /\ row.discount_percent = 10) => final_price(row) = 9000000
           /\ (row.price = 100000 /\ row.discount_percent = 0) => final_price(row) = 10000000
    /\ last.op = "view" /\ last.result = "OK" =>
        last.detail * 100 = products[last.product].price * 100
                                * (100 - products[last.product].discount_percent)

\* the product priced 0.33 with 10% off has just been viewed at 0.2970
C15_Witness ==
    /\ last.op = "view" /\ last.result = "OK"
    /\ products[last.product].price = 33
    /\ products[last.product].discount_percent = 10
    /\ last.detail = 2970

\* the buyer whose request takes this step
ActedBy(a) ==
    \/ \E r \in Reqs : req'[r] # req[r] /\ (req[r].user = a \/ req'[r].user = a)
    \/ req' = req /\ last'.user = a

\* the proofs on the orders of buyer b, with their ids
ProofsOn(ps, b) == {<<i, ps[i]>> : i \in {j \in DOMAIN ps : orders[ps[j].order].user = b}}

\* C16: no step of a request of buyer A creates, changes or deletes a CartItem
\* of another buyer B's cart or a proof on an Order of B: a setQuantity or a
\* remove goes on only with an item of the caller's cart and an upload only
\* with an Order of the caller (with B's they answer NotFound), and a checkout
\* locks, orders and deletes lines of the caller's cart only.
C16_StepOk ==
    /\ \A a \in Buyers : ActedBy(a) =>
        \A b \in Buyers \ {a} :
            /\ {it \in cartItems' : it.cart = b} = {it \in cartItems : it.cart = b}
            /\ ProofsOn(proofs', b) = ProofsOn(proofs, b)
    /\ \A r \in Reqs :
        /\ req[r].pc = "idle" /\ req'[r].op \in {"patch", "destroy"} =>
            \E it \in CartOf(req'[r].user) : it.id = req'[r].item
        /\ req[r].pc = "idle" /\ req'[r].op = "upload" =>
            orders[req'[r].target].user = req'[r].user
        /\ req[r].op = "checkout" /\ Len(req'[r].lines) > Len(req[r].lines) =>
            \E it \in CartOf(req[r].user) :
                it.id = req'[r].lines[Len(req'[r].lines)].item
    /\ Immediate("patch") /\ last'.result # "NotFound" =>
        \E it \in CartOf(last'.user) : it.product = last'.product
    /\ Immediate("destroy") => last'.result = "NotFound"
    /\ Immediate("upload") /\ last'.result # "NotFound" =>
        last'.detail \in DOMAIN orders /\ orders[last'.detail].user = last'.user

C16_BuyersAreIsolated == [][C16_StepOk]_vars

\* a buyer has just asked to set the quantity of an item of another buyer's
\* cart to 0, was answered NotFound, and the item is where it was
C16_Witness ==
    /\ last.op = "patch" /\ last.result = "NotFound" /\ last.qty = 0
    /\ \E it \in cartItems : it.id = last.detail /\ it.cart # last.user

\* C17: an operation that answers ValidationError, NotFound or Conflict (an
\* add with qty < 1 or of a missing product, a setQuantity or remove of an
\* unknown item, an upload for an Order that has a proof or without an image)
\* leaves the whole store as it was: no Cart, CartItem, Order, OrderItem or
\* PaymentProof is created, changed or deleted and no stock changes.
C17_StepOk ==
    (/\ last'.op \in {"add", "patch", "destroy", "upload"}
     /\ last'.result \in {"ValidationError", "NotFound", "Conflict"})
    => /\ carts' = carts
       /\ cartItems' = cartItems
       /\ orders' = orders
       /\ proofs' = proofs
       /\ products' = products

C17_RejectedRequestsChangeNothing == [][C17_StepOk]_vars

\* C18: a checkout takes the locks on the products of its cart lines in
\* ascending order of product id, so two checkouts running together never
\* reach a state in which each waits for a lock the other holds.
C18_LocksAscendingNoDeadlock ==
    /\ \A r \in Reqs : InCheckout(r) =>
        \A i, j \in DOMAIN req[r].lines :
            i < j => req[r].lines[i].product < req[r].lines[j].product
    /\ \A r, o \in Reqs : r # o => ~(WaitsFor(r, o) /\ WaitsFor(o, r))

\* C19: stock is decremented exactly once per OrderItem: with checkout the
\* only writer of stock, in every reachable state and for every product the
\* initial stock is the current stock plus the sum of qty over the OrderItems
\* of the product; a checkout that is about to write holds, for each line, the
\* committed stock of the product and at least qty of it, so the floor at zero
\* of the decrement changes nothing.
C19_StockIsConserved ==
    /\ \A p \in Products : InitialStock[p] = products[p].stock + OrderedQty(p)
    /\ \A r \in Reqs : req[r].op = "checkout" /\ req[r].pc \in {"gencode", "write"} =>
        \A i \in DOMAIN req[r].lines :
            LET l == req[r].lines[i]
            IN /\ l.stock = products[l.product].stock
               /\ l.stock >= l.qty
               /\ ReduceStock(l.stock, l.qty) = l.stock - l.qty

\* two Orders took the two units of product 1, the second just now
C19_Witness ==
    /\ last.op = "checkout" /\ last.result = "Created"
    /\ Len(orders) = 2
    /\ \A o \in DOMAIN orders :
        \E i \in DOMAIN orders[o].items :
            orders[o].items[i].product = 1 /\ orders[o].items[i].qty = 1
    /\ InitialStock[1] = 2 /\ products[1].stock = 0

\* C20: a checkout that fails after it began writing (its Order insert is
\* refused because a committed Order holds the code, or a later write fails)
\* leaves no Order or OrderItem, no stock decrement and the cart's lines as
\* they were; and no step shows a part of a checkout: every step that changes
\* the orders or a stock is the commit of a checkout, which adds one Order with
\* its total and an OrderItem for every line, takes the stock of every line
\* and clears the cart, all at once.
C20_StepOk ==
    /\ \A r \in Reqs :
        (/\ Ends(r, "checkout") /\ req[r].pc = "write"
         /\ last'.result \in {"IntegrityError", "TransactionFailure"})
        => /\ orders' = orders
           /\ products' = products
           /\ cartItems' = cartItems
    /\ (orders' # orders \/ products' # products) =>
        \E r \in Reqs :
            /\ Ends(r, "checkout") /\ last'.result = "Created"
            /\ Len(orders') = Len(orders) + 1
            /\ \A o \in DOMAIN orders : orders'[o] = orders[o]
            /\ LET new == orders'[Len(orders')]
                   lines == req[r].lines
               IN /\ \E mode \in RoundModes : new.total = Quantize2(RunningTotal(lines), mode)
                  /\ Len(new.items) = Len(lines)
                  /\ \A i \in DOMAIN lines :
                        products'[lines[i].product].stock = lines[i].stock - lines[i].qty
                  /\ \A p \in Products :
                        (\A i \in DOMAIN lines : lines[i].product # p)
                            => products'[p] = products[p]
                  /\ {it \in cartItems' : it.cart = req[r].user} = {}

C20_FailedCheckoutLeavesNothing == [][C20_StepOk]_vars

\* a checkout of a cart of two lines has just failed after the writes of its
\* first line: no Order is there, the stock is whole and the cart has its lines
C20_Witness ==
    /\ last.op = "checkout" /\ last.result = "TransactionFailure" /\ last.detail = 1
    /\ orders = <<>>
    /\ \A p \in Products : products[p].stock = InitialStock[p]
    /\ Cardinality(CartOf(last.user)) = 2

\* C21: a PaymentProof is created PENDING, and APPROVED and REJECTED are final
\* for a proof: once a proof is APPROVED or REJECTED no later approve or reject
\* call changes its status.
C21_StepOk ==
    /\ \A i \in DOMAIN proofs' : i \notin DOMAIN proofs => proofs'[i].status = "PENDING"
    /\ \A i \in DOMAIN proofs :
        proofs[i].status \in {"APPROVED", "REJECTED"} => proofs'[i].status = proofs[i].status

C21_VerifiedProofIsFinal == [][C21_StepOk]_vars

\* C22: every change of an Order's status made by a verification follows the
\* state graph: an approval moves an Order only from PENDING_PAYMENT to PAID, a
\* rejection only from PENDING_PAYMENT to REJECTED, and an Order that has left
\* PENDING_PAYMENT is never moved to PAID or to REJECTED by a verification.
C22_StepOk ==
    \A r \in Reqs :
        Ends(r, "verify") =>
            \A o \in DOMAIN orders :
                orders'[o].status # orders[o].status =>
                    /\ orders[o].status = "PENDING_PAYMENT"
                    /\ orders'[o].status = OrderStatusFor(req[r].decision)
                    /\ \E i \in req[r].sel : proofs[i].order = o

C22_VerificationFollowsStateGraph == [][C22_StepOk]_vars

\* C23: the availability flag is recomputed on every stock write: after a step
\* that writes a product's stock, the decrement of a checkout included, the
\* stored is_in_stock equals (stock > 0); a checkout that takes a product's
\* stock to 0 leaves is_in_stock false.
C23_StepOk ==
    \A p \in Products :
        products'[p].stock # products[p].stock =>
            products'[p].is_in_stock = (products'[p].stock > 0)

C23_FlagFollowsStock == [][C23_StepOk]_vars

\* C24: a product's stock changes only inside a checkout transaction that
\* holds the product's row lock: every step that changes a stock is the commit
\* of a checkout that locked the product; cart operations, views, uploads and
\* verifications leave every stock as it is, and no other operation writes stock.
C24_StepOk ==
    \A p \in Products :
        products'[p].stock # products[p].stock =>
            \E r \in Reqs :
                /\ Ends(r, "checkout") /\ last'.result = "Created"
                /\ p \in HeldProducts(r)

C24_OnlyCheckoutWritesStock == [][C24_StepOk]_vars

\* C25: _gen_code returns only a code that no Order holds when it is checked,
\* it keeps drawing for as long as every code of the space is held by an Order,
\* and under fair draws it returns once some code of the space is free
C25_StepOk ==
    \A r \in Reqs :
        req[r].pc = "gencode" =>
            /\ req'[r].pc # "gencode" =>
                /\ req'[r].pc = "write"
                /\ req'[r].code \in CodeSpace \ OrderCodes
            /\ CodeSpace \subseteq OrderCodes => req'[r].pc = "gencode"

C25_GenCodeReturnsFreeCodeOrLoops ==
    /\ [][C25_StepOk]_vars
    /\ \A r \in Reqs :
        (req[r].pc = "gencode" /\ ~(CodeSpace \subseteq OrderCodes))
            ~> (req[r].pc # "gencode")

C25_Witness ==
    /\ req[1].pc = "gencode"
    /\ CodeSpace \subseteq OrderCodes
    /\ Len(orders) = 1

\* C26: in every reachable state, concurrent adds of one product by one buyer
\* included, a cart holds at most one CartItem per product and every CartItem
\* row has qty >= 1
C26_OneLinePerProductQtyPositive ==
    /\ \A a, b \in cartItems :
        (a.cart = b.cart /\ a.product = b.product) => a = b
    /\ \A it \in cartItems : it.qty >= 1

C26_Witness ==
    /\ req[1].op = "add" /\ req[1].pc = "save"
    /\ req[2].op = "add" /\ req[2].pc = "save"
    /\ req[1].user = req[2].user /\ req[1].product = req[2].product
    /\ req[1].item = req[2].item
    /\ Cardinality(CartOf(req[1].user)) = 1

\* C27: every CartItem a committing checkout deletes is an OrderItem of the
\* Order it creates: a line added while the checkout runs is in the Order or
\* still in the cart after the commit, never deleted without being ordered
C27_StepOk ==
    \A r \in Reqs :
        (Ends(r, "checkout") /\ last'.result = "Created") =>
            \A it \in cartItems \ cartItems' :
                \E i \in DOMAIN orders'[Len(orders')].items :
                    /\ orders'[Len(orders')].items[i].product = it.product
                    /\ orders'[Len(orders')].items[i].qty = it.qty

C27_DeletedLinesAreOrdered == [][C27_StepOk]_vars

\* C28: when two adds of one product to one cart run concurrently (each read
\* the line before the other saved it) and both succeed, the CartItem qty is
\* the qty before them plus both requested quantities, and it is within the
\* product's stock
C28_StepOk ==
    \A q \in Reqs :
        (/\ last.op = "add" /\ last.result = "OK"
         /\ req[q].op = "add" /\ req[q].pc = "save"
         /\ req[q].user = last.user /\ req[q].product = last.product
         /\ \/ req[q].prior = last.detail
            \/ {req[q].prior, last.detail} = {0, 1}
         /\ Ends(q, "add") /\ last'.result = "OK") =>
            LET before == IF req[q].prior = 0 \/ last.detail = 0 THEN 0 ELSE last.detail
                after == HeldQty(cartItems', last.user, last.product)
            IN /\ after = before + last.qty + req[q].qty
               /\ after <= products[last.product].stock

C28_ConcurrentAddsBothCount == [][C28_StepOk]_vars

\* C29: with Order status written only by checkout and by proof approval and
\* rejection, in every reachable state an Order is PAID exactly when it has an
\* APPROVED proof, REJECTED exactly when it has a REJECTED proof, and
\* PENDING_PAYMENT exactly when it has no proof or a PENDING proof
C29_OrderStatusMirrorsProof ==
    \A o \in DOMAIN orders :
        LET has(st) == \E i \in DOMAIN proofs : proofs[i].order = o /\ proofs[i].status = st
            none == \A i \in DOMAIN proofs : proofs[i].order # o
        IN /\ orders[o].status = "PAID" <=> has("APPROVED")
           /\ orders[o].status = "REJECTED" <=> has("REJECTED")
           /\ orders[o].status = "PENDING_PAYMENT" <=> (none \/ has("PENDING"))

C29_Witness ==
    /\ Len(orders) = 2 /\ Len(proofs) = 2
    /\ orders[1].status = "PAID"
    /\ orders[2].status = "REJECTED"
    /\ last.op = "verify"

\* C30: for every product with price >= 0 and every discount percent the
\* column can store, 0 <= finalPrice(product) <= price, so every
\* OrderItem.unit_price and every Order.total is >= 0
C30_PricesNeverNegative ==
    /\ \A p \in Products :
        products[p].price >= 0 =>
            /\ 0 <= final_price(products[p])
            /\ final_price(products[p]) <= products[p].price * 100
    /\ \A o \in DOMAIN orders :
        /\ orders[o].total >= 0
        /\ \A i \in DOMAIN orders[o].items : orders[o].items[i].unit_price >= 0

=============================================================================
